---- MODULE Spec2Model ----
(***************************************************************************)
(* The WAL cleaner (package cleaner): one reconciliation pass              *)
(* (CleanupStorage -> abandonedStorage -> getManagedStorage,               *)
(* getAllStorage, lastWrittenTime), the background loop (run) driven by a  *)
(* time.Ticker and a done channel, and Stop.                               *)
(*                                                                         *)
(* Paths are sequences of path elements: "wal/inst-1" is <<"wal",          *)
(* "inst-1">> and a trailing separator is a trailing empty element, so     *)
(* "wal/" is <<"wal", "">>.  Times and durations are integers (hours);     *)
(* the range of the model stays far inside time.Duration, so Time.Sub is   *)
(* the plain difference.                                                   *)
(***************************************************************************)
EXTENDS Integers, Sequences, FiniteSets, TLC

\* The names an entry directly under the WAL root can have.
Names == {"inst-1", "inst-2", "orphan-1"}

\* The lexical order in which filepath.Walk visits the entries of a directory.
NameOrder == <<"inst-1", "inst-2", "orphan-1">>

\* The entry of kind that stands for the WAL root itself.
RootEntry == "."

\* The cap of the clock.
MaxTime == 12

\* The cap of the count of dropped ticks.
MaxDropped == 2

\* The clock at construction.
InitClocks == {10}

\* The walDirectory values given to NewCleaner: "wal" and "wal/".
Roots == {<<"wal">>, <<"wal", "">>}

\* The minAge values given to NewCleaner.
MinAges == {1, 6}

\* Modification times of the segments present at construction.
InitMTimes == {0, 4}

\* The tasks that run passes: the goroutine started by NewCleaner and a
\* task calling CleanupStorage directly.
Procs == {"loop", "manual"}

\* The calls of Stop.
Stoppers == {"s1", "s2"}

VARIABLES
    walDirectory,   \* walCleaner.walDirectory
    minAge,         \* walCleaner.minAge
    tickerStopped,  \* walCleaner.ticker: Stop() has been called on it
    tickerC,        \* walCleaner.ticker.C holds a tick (capacity 1)
    done,           \* walCleaner.done: "open" or "closed"
    panicked,       \* the process died of a run-time panic
    handles,        \* WAL handles opened by promwal.Open and not yet closed
    dropped,        \* ticks the ticker dropped since the loop last took one
    registry,       \* the instance manager: names of the listed instances
    creating,       \* instances started but not yet listed by the manager
    kind,           \* file system: what the root and each name under it is
    wal,            \* file system: the WAL below each storage directory
    clock,          \* time.Now()
    stopPc,         \* position of each call of Stop
    pc,             \* position of each task
    instances,      \* CleanupStorage: instances (snapshot), per task
    now,            \* abandonedStorage: now, per task
    all,            \* abandonedStorage: all, per task
    idx,            \* abandonedStorage: position of the range loop in all
    out,            \* abandonedStorage: out / CleanupStorage: abandoned
    ret,            \* CleanupStorage: "none" while running, "nil" once returned
    nsPc,           \* NewServerWithRandomPort: "loop", "call" or "returned"
    tries,          \* NewServerWithRandomPort: i
    port,           \* NewServerWithRandomPort: port (0 outside a round)
    lastError,      \* NewServerWithRandomPort: lastError
    srv,            \* NewServerWithRandomPort: srv
    listenAddr,     \* NewServerWithRandomPort: the address returned
    srvErr,         \* NewServerWithRandomPort: the error returned
    srvPc,          \* position of each server: running, in Stop, stopped
    depIdx,         \* Server.Stop: position of the range loop in deps
    shut,           \* Server.Stop: the deps called and what each returned
    firstErr,       \* Server.Stop: firstErr
    srvRet          \* Server.Stop: "none" until it has returned, then its result

cleanerVars == <<walDirectory, minAge, tickerStopped, tickerC, done>>
envVars == <<registry, creating, kind, wal, clock>>
passVars == <<instances, now, all, idx, out, ret>>
portVars == <<nsPc, tries, port, lastError, srv, listenAddr, srvErr>>
stopVars == <<srvPc, depIdx, shut, firstErr, srvRet>>
serverVars == <<portVars, stopVars>>
walCleanerVars == <<cleanerVars, panicked, handles, dropped, envVars, stopPc, pc,
                    passVars>>
vars == <<walCleanerVars, serverVars>>

Range(s) == {s[i] : i \in 1..Len(s)}

(***************************************************************************)
(* Paths                                                                   *)
(***************************************************************************)

\* path.Clean / filepath.Clean on the forms the model has: empty elements
\* (a trailing separator) are dropped.
Clean(p) == SelectSeq(p, LAMBDA c : c # "")

\* path.Dir: all but the last element, cleaned.
Dir(p) == IF Len(p) = 0 THEN <<>> ELSE Clean(SubSeq(p, 1, Len(p) - 1))

\* filepath.Join: the elements joined, cleaned.
Join(p, n) == Clean(p \o <<n>>)

\* The last element of a path.
Base(p) == p[Len(p)]

\* wal.SubDirectory: the WAL directory of a storage directory.
SubDirectory(storage) == Join(storage, "wal")

\* instance.ManagedInstance.StorageDirectory of the instance named n: the
\* manager joins its WAL directory and the instance's name.
StorageDirectory(n) == Join(<<"wal">>, n)

(***************************************************************************)
(* File system                                                             *)
(***************************************************************************)

\* kind[n]: "absent", "dir", "file" (a regular file) or "unreadable" (an
\* entry Walk reports with an error: Lstat or reading the directory failed).
Kinds == {"absent", "dir", "file", "unreadable"}

\* wal[n].st, the WAL below storage directory n:
\*   "openerr"  promwal.Open fails
\*   "segerr"   listing the segments fails (no WAL directory, unreadable)
\*   "noseg"    the WAL directory holds no segment
\*   "staterr"  the newest segment is listed but os.Stat on it fails
\*   "ok"       the newest segment has modification time wal[n].mtime
WalStates == {"openerr", "segerr", "noseg", "staterr", "ok"}

NoWal == [st |-> "segerr", mtime |-> 0]

WalOk(t) == [st |-> "ok", mtime |-> t]

\* The WAL seen below name n in file system (k, w).
WalOf(k, w, n) == IF n \in Names /\ k[n] = "dir" THEN w[n] ELSE NoWal

(***************************************************************************)
(* getAllStorage: filepath.Walk and its callback                           *)
(***************************************************************************)

\* One call of the Walk callback: (p, info.IsDir(), err != nil).
Visit(p, d, e) == [p |-> p, isDir |-> d, err |-> e]

\* What Walk visits below storage directory s whose WAL is x: the WAL
\* directory and its newest segment, when they are there.
WalkWal(s, x) ==
    LET walDir == SubDirectory(s)
        seg == Join(walDir, "00000000")
    IN  CASE x.st \in {"openerr", "segerr"} -> <<>>
          [] x.st = "noseg" -> <<Visit(walDir, TRUE, FALSE)>>
          [] x.st = "staterr" ->
                <<Visit(walDir, TRUE, FALSE), Visit(seg, FALSE, TRUE)>>
          [] OTHER -> <<Visit(walDir, TRUE, FALSE), Visit(seg, FALSE, FALSE)>>

\* What Walk visits for the entry named n of root: the entry, then what is
\* below it.  An entry that cannot be read is visited once, with the error.
WalkEntry(root, k, w, n) ==
    LET p == Join(root, n)
    IN  CASE k[n] = "absent" -> <<>>
          [] k[n] = "file" -> <<Visit(p, FALSE, FALSE)>>
          [] k[n] = "unreadable" -> <<Visit(p, TRUE, TRUE)>>
          [] OTHER -> <<Visit(p, TRUE, FALSE)>> \o WalkWal(p, w[n])

RECURSIVE WalkFrom(_, _, _, _)
WalkFrom(root, k, w, i) ==
    IF i > Len(NameOrder) THEN <<>>
    ELSE WalkEntry(root, k, w, NameOrder[i]) \o WalkFrom(root, k, w, i + 1)

\* filepath.Walk(root, fn): the root as given, then its entries in lexical
\* order, each path built with Join.  A root that cannot be read (Lstat or
\* reading the directory fails) is visited once, with the error.
Walk(root, k, w) ==
    IF k[RootEntry] = "unreadable" THEN <<Visit(root, TRUE, TRUE)>>
    ELSE <<Visit(root, TRUE, FALSE)>> \o WalkFrom(root, k, w, 1)

\* walkFn without the test of err: the variant C10 must tell from walkFn.
walkFnIgnoringErr(acc, v, root) ==
    IF v.isDir /\ Dir(v.p) = root THEN Append(acc, v.p) ELSE acc

\* The callback given to Walk: an error is logged; a directory one level
\* below root is appended.
walkFn(acc, v, root) ==
    IF v.err THEN acc
    ELSE IF v.isDir /\ Dir(v.p) = root THEN Append(acc, v.p)
    ELSE acc

RECURSIVE WalkFold(_, _, _, _)
WalkFold(acc, vs, i, root) ==
    IF i > Len(vs) THEN acc
    ELSE WalkFold(walkFn(acc, vs[i], root), vs, i + 1, root)

\* getAllStorage on file system (k, w).
getAllStorageOn(root, k, w) == WalkFold(<<>>, Walk(root, k, w), 1, root)

getAllStorage == getAllStorageOn(walDirectory, kind, wal)

(***************************************************************************)
(* getManagedStorage, lastWrittenTime, abandonedStorage                    *)
(***************************************************************************)

\* getManagedStorage keyed by the instance's name instead of its storage
\* directory: the variant C1 must tell from getManagedStorage.
getManagedStorageByName(insts) == {<<n>> : n \in insts}

\* The keys of the map getManagedStorage builds.
getManagedStorage(insts) == {StorageDirectory(n) : n \in insts}

\* time.Time{}: before every time a file can have.
empty == -1

\* existing.Segments(): the index of the newest segment, -1 when there is none.
Segments(x) ==
    [last |-> IF x.st = "noseg" THEN -1 ELSE 0, err |-> x.st = "segerr"]

\* existing.Close() on a WAL that holds h handles.
Close(h) == h - 1

\* lastWrittenTime giving the zero time, without an error, for a WAL without
\* segments: the variant C8 must tell from lastWrittenTime.
lastWrittenTimeZeroForNoSegments(k, w, storage) ==
    LET x == WalOf(k, w, Base(storage))
        s == Segments(x)
    IN  IF x.st = "openerr" THEN [t |-> empty, err |-> TRUE, open |-> 0]
        ELSE IF s.err THEN [t |-> empty, err |-> TRUE, open |-> Close(1)]
        ELSE IF s.last = -1 THEN [t |-> empty, err |-> FALSE, open |-> Close(1)]
        ELSE IF x.st = "staterr" THEN [t |-> empty, err |-> TRUE, open |-> Close(1)]
        ELSE [t |-> x.mtime, err |-> FALSE, open |-> Close(1)]

\* lastWrittenTime with existing.Close() called on the successful return
\* only, not deferred: the variant C17 must tell from lastWrittenTime.
lastWrittenTimeClosingOnSuccess(k, w, storage) ==
    LET x == WalOf(k, w, Base(storage))
        s == Segments(x)
    IN  IF x.st = "openerr" THEN [t |-> empty, err |-> TRUE, open |-> 0]
        ELSE IF s.err THEN [t |-> empty, err |-> TRUE, open |-> 1]
        ELSE IF s.last = -1 THEN [t |-> empty, err |-> TRUE, open |-> 1]
        ELSE IF x.st = "staterr" THEN [t |-> empty, err |-> TRUE, open |-> 1]
        ELSE [t |-> x.mtime, err |-> FALSE, open |-> Close(1)]

\* lastWrittenTime(storage) on file system (k, w): (time, err != nil), and
\* in open the handles it leaves open.  A failed promwal.Open gives no
\* handle; after a successful one the deferred Close runs on every return.
lastWrittenTime(k, w, storage) ==
    LET x == WalOf(k, w, Base(storage))
        s == Segments(x)
    IN  IF x.st = "openerr" THEN [t |-> empty, err |-> TRUE, open |-> 0]
        ELSE IF s.err THEN [t |-> empty, err |-> TRUE, open |-> Close(1)]
        ELSE IF s.last = -1 THEN [t |-> empty, err |-> TRUE, open |-> Close(1)]
        ELSE IF x.st = "staterr" THEN [t |-> empty, err |-> TRUE, open |-> Close(1)]
        ELSE [t |-> x.mtime, err |-> FALSE, open |-> Close(1)]

\* mtime.Sub(now): the variant C7 must tell from Sub.
SubReversed(a, b) == b - a

\* now.Sub(mtime)
Sub(a, b) == a - b

\* diff >= c.minAge: the variant C6 must tell from olderThan.
olderThanOrEqual(diff, mAge) == diff >= mAge

\* The test of line 132: diff > c.minAge.
olderThan(diff, mAge) == diff > mAge

\* The body of the range loop without the continue on err: the variant C9
\* must tell from inspect.
inspectIgnoringErr(acc, dir, managed, nw, mAge, k, w) ==
    IF dir \notin managed
    THEN LET r == lastWrittenTime(k, w, dir)
         IN  IF olderThan(Sub(nw, r.t), mAge) THEN Append(acc, dir) ELSE acc
    ELSE acc

\* The body of the range loop of abandonedStorage for dir, on (k, w).
inspect(acc, dir, managed, nw, mAge, k, w) ==
    IF dir \notin managed
    THEN LET r == lastWrittenTime(k, w, dir)
         IN  IF r.err THEN acc
             ELSE IF olderThan(Sub(nw, r.t), mAge) THEN Append(acc, dir)
             ELSE acc
    ELSE acc

\* The handles the body of the range loop leaves open for dir: it calls
\* lastWrittenTime for a directory that is not managed.
opened(dir, managed, k, w) ==
    IF dir \notin managed THEN lastWrittenTime(k, w, dir).open ELSE 0

RECURSIVE InspectFold(_, _, _, _, _, _, _, _)
InspectFold(acc, dirs, i, managed, nw, mAge, k, w) ==
    IF i > Len(dirs) THEN acc
    ELSE InspectFold(inspect(acc, dirs[i], managed, nw, mAge, k, w),
                     dirs, i + 1, managed, nw, mAge, k, w)

\* abandonedStorage(instances, now) run without interruption on (k, w).
abandonedStorageOn(root, k, w, insts, nw, mAge) ==
    InspectFold(<<>>, getAllStorageOn(root, k, w), 1,
                getManagedStorage(insts), nw, mAge, k, w)

abandonedStorage(insts, nw) ==
    abandonedStorageOn(walDirectory, kind, wal, insts, nw, minAge)

(***************************************************************************)
(* Construction                                                            *)
(***************************************************************************)

\* What an entry under the root can be at construction.
Entries ==
    {[k |-> x, w |-> NoWal] : x \in {"absent", "file", "unreadable"}}
    \cup {[k |-> "dir", w |-> [st |-> x, mtime |-> 0]] :
            x \in {"openerr", "segerr", "noseg", "staterr"}}
    \cup {[k |-> "dir", w |-> WalOk(t)] : t \in InitMTimes}

\* The end-to-end setting: inst-1 and inst-2 are listed instances with a
\* WAL, orphan-1 is a storage directory no instance owns.
ScenarioEntries ==
    [Names -> Entries] \cap
    {e \in [Names -> Entries] :
        /\ e["inst-1"] = [k |-> "dir", w |-> WalOk(0)]
        /\ e["inst-2"] = [k |-> "dir", w |-> WalOk(0)]
        /\ e["orphan-1"].k = "dir"
        /\ e["orphan-1"].w.st \in {"ok", "noseg"}}

\* NewCleaner: the fields, the ticker armed, the done channel open, the
\* goroutine started; no pass has run.
NewCleaner ==
    /\ walDirectory \in Roots
    /\ minAge \in MinAges
    /\ tickerStopped = FALSE
    /\ tickerC = FALSE
    /\ done = "open"
    /\ panicked = FALSE
    /\ handles = 0
    /\ dropped = 0
    /\ stopPc = [s \in Stoppers |-> "idle"]
    /\ pc = [p \in Procs |-> IF p = "loop" THEN "select" ELSE "idle"]
    /\ instances = [p \in Procs |-> {}]
    /\ now = [p \in Procs |-> 0]
    /\ all = [p \in Procs |-> <<>>]
    /\ idx = [p \in Procs |-> 0]
    /\ out = [p \in Procs |-> <<>>]
    /\ ret = [p \in Procs |-> "none"]

\* The testing servers: what Server.Stop shuts down, in the order of deps.
deps == <<"receivers.ShutdownAll", "pipelines.ShutdownProcessors",
          "exporters.ShutdownAll">>

\* The testing servers of a test run.
Servers == {"srv-1", "srv-2"}

\* NewServerWithRandomPort has not been called.
NoRandomPort ==
    /\ nsPc = "loop"
    /\ tries = 0
    /\ port = 0
    /\ lastError = "nil"
    /\ srv = "none"
    /\ listenAddr = ""
    /\ srvErr = "none"

\* The servers NewServer has returned: started, Stop not called.
NewServer ==
    /\ srvPc = [s \in Servers |-> "running"]
    /\ depIdx = [s \in Servers |-> 1]
    /\ shut = [s \in Servers |-> <<>>]
    /\ firstErr = [s \in Servers |-> "nil"]
    /\ srvRet = [s \in Servers |-> "none"]

\* The end-to-end setting at construction, on a root of kind r.
InitOn(r) ==
    /\ NoRandomPort
    /\ NewServer
    /\ NewCleaner
    /\ clock \in InitClocks
    /\ creating = {}
    /\ registry = {"inst-1", "inst-2"}
    /\ \E e \in ScenarioEntries :
          /\ kind = [n \in Names \cup {RootEntry} |->
                        IF n = RootEntry THEN r ELSE e[n].k]
          /\ wal = [n \in Names |-> e[n].w]

\* The end-to-end setting at construction.
Init == InitOn("dir")

\* The end-to-end setting, its root readable or not.
InitLoop == \E r \in {"dir", "unreadable"} : InitOn(r)

\* Any file system, its root readable or not, and any registry of
\* instances that have a WAL.
InitAny ==
    /\ NoRandomPort
    /\ NewServer
    /\ NewCleaner
    /\ clock \in InitClocks
    /\ creating = {}
    /\ \E e \in [Names -> Entries], r \in {"dir", "unreadable"} :
          /\ kind = [n \in Names \cup {RootEntry} |->
                        IF n = RootEntry THEN r ELSE e[n].k]
          /\ wal = [n \in Names |-> e[n].w]
          /\ registry \in SUBSET {n \in Names : e[n].w.st = "ok"}

(***************************************************************************)
(* CleanupStorage, step by step, run by task p                             *)
(***************************************************************************)

\* The locals of a pass that has not started.
ResetPass(p) ==
    /\ instances' = [instances EXCEPT ![p] = {}]
    /\ now' = [now EXCEPT ![p] = 0]
    /\ all' = [all EXCEPT ![p] = <<>>]
    /\ idx' = [idx EXCEPT ![p] = 0]

\* A direct call that a stopped cleaner turns away: the variant C22 must
\* tell from Call.
CallUnlessStopped(p) ==
    /\ ~panicked
    /\ p # "loop"
    /\ pc[p] = "idle"
    /\ done = "open"
    /\ pc' = [pc EXCEPT ![p] = "list"]
    /\ out' = [out EXCEPT ![p] = <<>>]
    /\ ret' = [ret EXCEPT ![p] = "none"]
    /\ UNCHANGED <<cleanerVars, panicked, serverVars, handles, dropped, envVars, stopPc, instances, now, all, idx>>

\* A task calls CleanupStorage directly.
Call(p) ==
    /\ ~panicked
    /\ p # "loop"
    /\ pc[p] = "idle"
    /\ pc' = [pc EXCEPT ![p] = "list"]
    /\ out' = [out EXCEPT ![p] = <<>>]
    /\ ret' = [ret EXCEPT ![p] = "none"]
    /\ UNCHANGED <<cleanerVars, panicked, serverVars, handles, dropped, envVars, stopPc, instances, now, all, idx>>

\* instances := c.instanceManager.ListInstances()
ListInstances(p) ==
    /\ ~panicked
    /\ pc[p] = "list"
    /\ instances' = [instances EXCEPT ![p] = registry]
    /\ pc' = [pc EXCEPT ![p] = "scan"]
    /\ UNCHANGED <<cleanerVars, panicked, serverVars, handles, dropped, envVars, stopPc, now, all, idx, out, ret>>

\* Scan waiting for a lock that a pass holds from its scan to its return:
\* the variant C14 must tell from Scan.
ScanUnderLock(p) ==
    /\ ~panicked
    /\ pc[p] = "scan"
    /\ \A q \in Procs \ {p} : pc[q] \notin {"inspect", "log"}
    /\ now' = [now EXCEPT ![p] = clock]
    /\ all' = [all EXCEPT ![p] = getAllStorage]
    /\ idx' = [idx EXCEPT ![p] = 1]
    /\ pc' = [pc EXCEPT ![p] = IF getAllStorage = <<>> THEN "log" ELSE "inspect"]
    /\ UNCHANGED <<cleanerVars, panicked, serverVars, handles, dropped, envVars, stopPc, instances, out, ret>>

\* time.Now(), then the head of abandonedStorage: getManagedStorage and
\* getAllStorage.
Scan(p) ==
    /\ ~panicked
    /\ pc[p] = "scan"
    /\ now' = [now EXCEPT ![p] = clock]
    /\ all' = [all EXCEPT ![p] = getAllStorage]
    /\ idx' = [idx EXCEPT ![p] = 1]
    /\ pc' = [pc EXCEPT ![p] = IF getAllStorage = <<>> THEN "log" ELSE "inspect"]
    /\ UNCHANGED <<cleanerVars, panicked, serverVars, handles, dropped, envVars, stopPc, instances, out, ret>>

\* One round of the range loop appending to a result that the tasks share:
\* the variant C15 must tell from Inspect.
InspectShared(p) ==
    /\ ~panicked
    /\ pc[p] = "inspect"
    /\ out' = [q \in Procs |->
                 inspect(out[q], all[p][idx[p]], getManagedStorage(instances[p]),
                         now[p], minAge, kind, wal)]
    /\ idx' = [idx EXCEPT ![p] = idx[p] + 1]
    /\ handles' = handles + opened(all[p][idx[p]],
                                    getManagedStorage(instances[p]), kind, wal)
    /\ pc' = [pc EXCEPT ![p] = IF idx[p] = Len(all[p]) THEN "log" ELSE "inspect"]
    /\ UNCHANGED <<cleanerVars, panicked, serverVars, dropped, envVars, stopPc, instances, now, all, ret>>

\* One round of the range loop removing the directory it inspected when it
\* appends it: the variant C16 must tell from Inspect.
InspectRemoving(p) ==
    /\ ~panicked
    /\ pc[p] = "inspect"
    /\ out' = [out EXCEPT ![p] =
                 inspect(out[p], all[p][idx[p]], getManagedStorage(instances[p]),
                         now[p], minAge, kind, wal)]
    /\ kind' = IF out'[p] # out[p]
               THEN [kind EXCEPT ![Base(all[p][idx[p]])] = "absent"]
               ELSE kind
    /\ idx' = [idx EXCEPT ![p] = idx[p] + 1]
    /\ handles' = handles + opened(all[p][idx[p]],
                                    getManagedStorage(instances[p]), kind, wal)
    /\ pc' = [pc EXCEPT ![p] = IF idx[p] = Len(all[p]) THEN "log" ELSE "inspect"]
    /\ UNCHANGED <<cleanerVars, panicked, serverVars, dropped, registry, creating, wal, clock,
                   stopPc, instances, now, all, ret>>

\* One round of the range loop of abandonedStorage.
Inspect(p) ==
    /\ ~panicked
    /\ pc[p] = "inspect"
    /\ out' = [out EXCEPT ![p] =
                 inspect(out[p], all[p][idx[p]], getManagedStorage(instances[p]),
                         now[p], minAge, kind, wal)]
    /\ idx' = [idx EXCEPT ![p] = idx[p] + 1]
    /\ handles' = handles + opened(all[p][idx[p]],
                                    getManagedStorage(instances[p]), kind, wal)
    /\ pc' = [pc EXCEPT ![p] = IF idx[p] = Len(all[p]) THEN "log" ELSE "inspect"]
    /\ UNCHANGED <<cleanerVars, panicked, serverVars, dropped, envVars, stopPc, instances, now, all, ret>>

\* The return of a pass after which run leaves its loop: the variant C18
\* must tell from Return.
ReturnLeavingLoop(p) ==
    /\ ~panicked
    /\ pc[p] = "log"
    /\ ret' = [ret EXCEPT ![p] = "nil"]
    /\ pc' = [pc EXCEPT ![p] = IF p = "loop" THEN "exited" ELSE "idle"]
    /\ ResetPass(p)
    /\ UNCHANGED <<cleanerVars, panicked, serverVars, handles, dropped, envVars, stopPc, out>>

\* The range loop of CleanupStorage only logs each abandoned directory;
\* then return nil.  In run, the error is tested and the loop selects again.
Return(p) ==
    /\ ~panicked
    /\ pc[p] = "log"
    /\ ret' = [ret EXCEPT ![p] = "nil"]
    /\ pc' = [pc EXCEPT ![p] = IF p = "loop" THEN "select" ELSE "idle"]
    /\ ResetPass(p)
    /\ UNCHANGED <<cleanerVars, panicked, serverVars, handles, dropped, envVars, stopPc, out>>

CleanupStorage(p) ==
    \/ ListInstances(p)
    \/ Scan(p)
    \/ Inspect(p)
    \/ Return(p)

(***************************************************************************)
(* run, the ticker, Stop                                                   *)
(***************************************************************************)

\* The ticker sends a tick without blocking: ticker.C holds one tick, and
\* a tick that finds it full is dropped.
TickerFire ==
    /\ ~panicked
    /\ ~tickerStopped
    /\ IF tickerC
       THEN /\ dropped < MaxDropped
            /\ dropped' = dropped + 1
            /\ UNCHANGED tickerC
       ELSE /\ tickerC' = TRUE
            /\ UNCHANGED dropped
    /\ UNCHANGED <<walDirectory, minAge, tickerStopped, done, panicked, serverVars, handles,
                   envVars, stopPc, pc, passVars>>

\* A tick starting a pass in a goroutine of its own, wherever the previous
\* one is: the variant C19 must tell from RecvTick.
RecvTickSpawning ==
    /\ ~panicked
    /\ pc["loop"] # "exited"
    /\ tickerC
    /\ tickerC' = FALSE
    /\ dropped' = 0
    /\ pc' = [pc EXCEPT !["loop"] = "list"]
    /\ out' = [out EXCEPT !["loop"] = <<>>]
    /\ ret' = [ret EXCEPT !["loop"] = "none"]
    /\ UNCHANGED <<walDirectory, minAge, tickerStopped, done, panicked, serverVars, handles,
                   envVars, stopPc, instances, now, all, idx>>

\* The receive from a ticker whose channel queues the ticks that found a
\* tick waiting: the variant C21 must tell from RecvTick.
RecvTickQueued ==
    /\ ~panicked
    /\ pc["loop"] = "select"
    /\ tickerC
    /\ tickerC' = (dropped > 0)
    /\ dropped' = IF dropped > 0 THEN dropped - 1 ELSE 0
    /\ pc' = [pc EXCEPT !["loop"] = "list"]
    /\ out' = [out EXCEPT !["loop"] = <<>>]
    /\ ret' = [ret EXCEPT !["loop"] = "none"]
    /\ UNCHANGED <<walDirectory, minAge, tickerStopped, done, panicked, serverVars, handles,
                   envVars, stopPc, instances, now, all, idx>>

\* run: case <-c.ticker.C
RecvTick ==
    /\ ~panicked
    /\ pc["loop"] = "select"
    /\ tickerC
    /\ tickerC' = FALSE
    /\ dropped' = 0
    /\ pc' = [pc EXCEPT !["loop"] = "list"]
    /\ out' = [out EXCEPT !["loop"] = <<>>]
    /\ ret' = [ret EXCEPT !["loop"] = "none"]
    /\ UNCHANGED <<walDirectory, minAge, tickerStopped, done, panicked, serverVars, handles,
                   envVars, stopPc, instances, now, all, idx>>

\* run: case <-c.done
RecvDone ==
    /\ ~panicked
    /\ pc["loop"] = "select"
    /\ done = "closed"
    /\ pc' = [pc EXCEPT !["loop"] = "exited"]
    /\ UNCHANGED <<cleanerVars, panicked, serverVars, handles, dropped, envVars, stopPc, passVars>>

\* run: the select takes any case that is ready.
run ==
    \/ RecvDone
    \/ RecvTick
    \/ CleanupStorage("loop")

\* Stop: c.ticker.Stop()
StopTicker(s) ==
    /\ ~panicked
    /\ stopPc[s] = "idle"
    /\ tickerStopped' = TRUE
    /\ stopPc' = [stopPc EXCEPT ![s] = "close"]
    /\ UNCHANGED <<walDirectory, minAge, tickerC, done, panicked, serverVars, handles, dropped, envVars,
                   pc, passVars>>

\* Stop returning without closing done: the variant C13 must tell from
\* CloseDone.
CloseDoneSkipped(s) ==
    /\ ~panicked
    /\ stopPc[s] = "close"
    /\ stopPc' = [stopPc EXCEPT ![s] = "returned"]
    /\ UNCHANGED <<cleanerVars, panicked, serverVars, handles, dropped, envVars, pc, passVars>>

\* Stop: close(c.done); closing a closed channel panics.
CloseDone(s) ==
    /\ ~panicked
    /\ stopPc[s] = "close"
    /\ IF done = "open"
       THEN /\ done' = "closed"
            /\ stopPc' = [stopPc EXCEPT ![s] = "returned"]
            /\ UNCHANGED panicked
       ELSE /\ panicked' = TRUE
            /\ stopPc' = [stopPc EXCEPT ![s] = "panic"]
            /\ UNCHANGED done
    /\ UNCHANGED <<walDirectory, minAge, tickerStopped, tickerC, serverVars,
                   handles, dropped,
                   envVars, pc, passVars>>

Stop(s) ==
    \/ StopTicker(s)
    \/ CloseDone(s)

(***************************************************************************)
(* The environment: the clock, the instance manager, the WAL writer        *)
(***************************************************************************)

Tick ==
    /\ clock < MaxTime
    /\ clock' = clock + 1
    /\ UNCHANGED <<cleanerVars, panicked, serverVars, handles, dropped, registry, creating, kind, wal,
                   stopPc, pc, passVars>>

\* An instance starts: its WAL writer makes the storage directory, or finds
\* it, and writes a new segment.  The manager does not list it yet.
StartInstance(n) ==
    /\ ~panicked
    /\ n \notin registry \cup creating
    /\ kind[n] \in {"absent", "dir"}
    /\ kind' = [kind EXCEPT ![n] = "dir"]
    /\ wal' = [wal EXCEPT ![n] = WalOk(clock)]
    /\ creating' = creating \cup {n}
    /\ UNCHANGED <<cleanerVars, panicked, serverVars, handles, dropped, registry, clock, stopPc, pc, passVars>>

\* The manager lists the started instance.
Register(n) ==
    /\ ~panicked
    /\ n \in creating
    /\ creating' = creating \ {n}
    /\ registry' = registry \cup {n}
    /\ UNCHANGED <<cleanerVars, panicked, serverVars, handles, dropped, kind, wal, clock, stopPc, pc, passVars>>

\* An instance is removed; its storage directory stays.
RemoveInstance(n) ==
    /\ ~panicked
    /\ n \in registry
    /\ registry' = registry \ {n}
    /\ UNCHANGED <<cleanerVars, panicked, serverVars, handles, dropped, creating, kind, wal, clock, stopPc,
                   pc, passVars>>

Environment ==
    \/ Tick
    \/ \E n \in Names : StartInstance(n) \/ Register(n) \/ RemoveInstance(n)

(***************************************************************************)
(* The testing server: NewServerWithRandomPort and Server.Stop             *)
(***************************************************************************)

\* The bounds of the ports and the number of attempts.
MaxPort == 65535
MinPort == 49152
Attempts == 5

\* rand.Intn(n): any of 0 .. n-1.
Intn(n) == 0 .. n - 1

\* rand.Intn(65535-49152) + 49152
Ports == {r + MinPort : r \in Intn(MaxPort - MinPort)}

\* fmt.Sprintf("127.0.0.1:%d", port)
Addr(p) == <<"127.0.0.1", p>>

\* The head of a round of the loop: a port is drawn.
DrawPort ==
    /\ nsPc = "loop"
    /\ tries < Attempts
    /\ \E p \in Ports : port' = p
    /\ nsPc' = "call"
    /\ UNCHANGED <<tries, lastError, srv, listenAddr, srvErr>>
    /\ UNCHANGED <<walCleanerVars, stopVars>>

\* The rest of the round: NewServer on the port; on an error the loop goes
\* on (the round's port is gone), otherwise the server and its address are
\* returned.
CallNewServer ==
    /\ nsPc = "call"
    /\ \E started \in BOOLEAN :
          IF started
          THEN /\ srv' = "server"
               /\ listenAddr' = Addr(port)
               /\ srvErr' = "nil"
               /\ nsPc' = "returned"
               /\ UNCHANGED <<tries, lastError, port>>
          ELSE /\ lastError' = <<"NewServer", tries + 1>>
               /\ tries' = tries + 1
               /\ port' = 0
               /\ nsPc' = "loop"
               /\ UNCHANGED <<srv, listenAddr, srvErr>>
    /\ UNCHANGED <<walCleanerVars, stopVars>>

\* After the loop: no server, no address, an error that wraps lastError.
GiveUp ==
    /\ nsPc = "loop"
    /\ tries = Attempts
    /\ srv' = "nil"
    /\ listenAddr' = ""
    /\ srvErr' = <<"failed 5 times to create a server", lastError>>
    /\ nsPc' = "returned"
    /\ UNCHANGED <<tries, lastError, port, walCleanerVars, stopVars>>

NewServerWithRandomPort ==
    \/ DrawPort
    \/ CallNewServer
    \/ GiveUp

\* Server.Stop is called on server s.
StopCall(s) ==
    /\ srvPc[s] = "running"
    /\ srvPc' = [srvPc EXCEPT ![s] = "stopping"]
    /\ firstErr' = [firstErr EXCEPT ![s] = "nil"]
    /\ depIdx' = [depIdx EXCEPT ![s] = 1]
    /\ UNCHANGED <<shut, srvRet, walCleanerVars, portVars>>

\* A round of the range loop that leaves the loop at the first error: the
\* variant C23 must tell from Shutdown.
ShutdownUntilError(s) ==
    /\ srvPc[s] = "stopping"
    /\ depIdx[s] <= Len(deps)
    /\ \E e \in {"nil", deps[depIdx[s]]} :
          /\ shut' = [shut EXCEPT ![s] =
                         Append(shut[s], [dep |-> deps[depIdx[s]], err |-> e])]
          /\ firstErr' = [firstErr EXCEPT ![s] =
                             IF e # "nil" /\ firstErr[s] = "nil" THEN e
                             ELSE firstErr[s]]
          /\ depIdx' = [depIdx EXCEPT ![s] =
                           IF e # "nil" THEN Len(deps) + 1 ELSE depIdx[s] + 1]
    /\ UNCHANGED <<srvPc, srvRet, walCleanerVars, portVars>>

\* One round of the range loop over deps: the dep is called and returns
\* nil or its error; firstErr keeps the first error.
Shutdown(s) ==
    /\ srvPc[s] = "stopping"
    /\ depIdx[s] <= Len(deps)
    /\ \E e \in {"nil", deps[depIdx[s]]} :
          /\ shut' = [shut EXCEPT ![s] =
                         Append(shut[s], [dep |-> deps[depIdx[s]], err |-> e])]
          /\ firstErr' = [firstErr EXCEPT ![s] =
                             IF e # "nil" /\ firstErr[s] = "nil" THEN e
                             ELSE firstErr[s]]
          /\ depIdx' = [depIdx EXCEPT ![s] = depIdx[s] + 1]
    /\ UNCHANGED <<srvPc, srvRet, walCleanerVars, portVars>>

\* return firstErr
StopReturn(s) ==
    /\ srvPc[s] = "stopping"
    /\ depIdx[s] > Len(deps)
    /\ srvRet' = [srvRet EXCEPT ![s] = firstErr[s]]
    /\ srvPc' = [srvPc EXCEPT ![s] = "stopped"]
    /\ UNCHANGED <<depIdx, shut, firstErr, walCleanerVars, portVars>>

ServerStop(s) ==
    \/ StopCall(s)
    \/ Shutdown(s)
    \/ StopReturn(s)

(***************************************************************************)
(* Specifications                                                          *)
(***************************************************************************)

\* The cleaner in the end-to-end setting, its root readable or not: its loop, direct calls of
\* CleanupStorage and calls of Stop, on a file system and a registry that
\* nothing else changes.
Next ==
    \/ run
    \/ Call("manual")
    \/ CleanupStorage("manual")
    \/ \E s \in Stoppers : Stop(s)
    \/ TickerFire

Spec == InitLoop /\ [][Next]_vars

\* Spec with the goroutines scheduled fairly: the loop takes a step of run
\* that stays possible, and so does each call of Stop.  Nothing obliges
\* the ticker to fire or a task to call CleanupStorage.
SpecLive ==
    /\ Spec
    /\ WF_vars(run)
    /\ \A s \in Stoppers : WF_vars(Stop(s))

\* Direct calls of CleanupStorage in the end-to-end setting while the clock
\* runs and instances are started, listed and removed.
NextEnv ==
    \/ Call("manual")
    \/ CleanupStorage("manual")
    \/ Environment

SpecEnv == Init /\ [][NextEnv]_vars

\* One direct call of CleanupStorage at a time, on any file system and
\* registry, nothing else running.
NextPass ==
    \/ Call("manual")
    \/ CleanupStorage("manual")

SpecPass == InitAny /\ [][NextPass]_vars

\* The cleaner of the testing server's specifications: constructed, in one
\* of the end-to-end settings, and left alone.
InitServer ==
    /\ Init
    /\ walDirectory = <<"wal">>
    /\ minAge = 6
    /\ wal["orphan-1"] = WalOk(0)

\* One call of NewServerWithRandomPort.
NextRandomPort == NewServerWithRandomPort

SpecRandomPort == InitServer /\ [][NextRandomPort]_vars

\* The testing servers of a test run, each stopped once.
NextServerStop == \E s \in Servers : ServerStop(s)

SpecServerStop == InitServer /\ [][NextServerStop]_vars

(***************************************************************************)
(* Properties                                                              *)
(***************************************************************************)

\* The path of the entry named n of the WAL root.
PathOf(n) == Join(walDirectory, n)

\* The storage directories of the instances insts.
OwnedBy(insts) == {StorageDirectory(n) : n \in insts}

\* The storage directories of the instances of task p's snapshot.
Managed(p) == OwnedBy(instances[p])

\* The directories task p's pass has appended to out in this step.
Appended(p) == Range(out'[p]) \ Range(out[p])

\* C1: the list a pass builds never contains the StorageDirectory() of an
\* instance of the pass's snapshot: at every point of a running pass, and
\* for abandonedStorage applied to every snapshot on the file system at hand.
C1_ManagedNeverAbandoned ==
    /\ \A p \in Procs : Range(out[p]) \cap Managed(p) = {}
    /\ \A insts \in SUBSET Names :
          Range(abandonedStorage(insts, clock)) \cap OwnedBy(insts) = {}

\* A pass has skipped a directory its snapshot owns and has classified
\* another one as abandoned.
C1_Witness ==
    \E p \in Procs :
        /\ pc[p] = "log"
        /\ Range(all[p]) \cap Managed(p) # {}
        /\ out[p] # <<>>

\* C2: once a call of Stop has returned, the loop starts no pass.
C2_NoPassAfterStop ==
    [][(\E s \in Stoppers : stopPc[s] = "returned")
          => ~(pc["loop"] = "select" /\ pc'["loop"] = "list")]_vars

\* C3: a second call of Stop returns normally; no call of Stop ends in a
\* panic.
C3_SecondStopIsNoOp ==
    /\ ~panicked
    /\ \A s \in Stoppers : stopPc[s] # "panic"

\* C4: in the end-to-end setting (root "wal", minAge 6, orphan-1's newest
\* segment 10 old, inst-1 and inst-2 listed), once a direct call of
\* CleanupStorage has returned, orphan-1 is gone, inst-1 and inst-2 are
\* still there and the call returned nil.
C4_DeletesAbandoned ==
    (/\ walDirectory = <<"wal">>
     /\ minAge = 6
     /\ registry = {"inst-1", "inst-2"}
     /\ wal["orphan-1"].st = "ok"
     /\ clock - wal["orphan-1"].mtime = 10
     /\ pc["manual"] = "idle"
     /\ ret["manual"] = "nil")
    => /\ kind["orphan-1"] = "absent"
       /\ kind["inst-1"] = "dir"
       /\ kind["inst-2"] = "dir"

\* The storage directories on disk that snapshot insts does not own, whose
\* lastWrittenTime succeeds and whose age at nw exceeds minAge.
ExpectedAbandoned(insts, nw) ==
    {PathOf(n) : n \in
        {m \in Names :
            /\ kind[m] = "dir"
            /\ PathOf(m) \notin OwnedBy(insts)
            /\ ~lastWrittenTime(kind, wal, PathOf(m)).err
            /\ nw - lastWrittenTime(kind, wal, PathOf(m)).t > minAge}}

\* C5: the result of a pass is exactly the set of unowned storage
\* directories on disk whose lastWrittenTime succeeds and whose age exceeds
\* minAge.
C5_ExactResult ==
    \A p \in Procs :
        pc[p] = "log" => Range(out[p]) = ExpectedAbandoned(instances[p], now[p])

\* C6: a directory is appended to the result only when the modification
\* time the pass reads for it lies more than minAge before the pass's now;
\* with an age of minAge or less, or a time after now, it is not appended.
C6_OnlyStrictlyOlder ==
    [][\A p \in Procs : \A d \in Appended(p) :
          /\ pc[p] = "inspect"
          /\ ~lastWrittenTime(kind, wal, d).err
          /\ now[p] - lastWrittenTime(kind, wal, d).t > minAge]_vars

\* A finished pass left out an unowned directory whose age is exactly
\* minAge and an unowned directory written after the pass's now.
C6_Witness ==
    \E p \in Procs :
        /\ pc[p] = "log"
        /\ \E d \in Range(all[p]) \ (Managed(p) \cup Range(out[p])) :
              /\ ~lastWrittenTime(kind, wal, d).err
              /\ now[p] - lastWrittenTime(kind, wal, d).t = minAge
        /\ \E d \in Range(all[p]) \ (Managed(p) \cup Range(out[p])) :
              /\ ~lastWrittenTime(kind, wal, d).err
              /\ lastWrittenTime(kind, wal, d).t > now[p]

\* C7, as stated: a pass never appends the directory of an instance that
\* is started but not yet listed.
C7_NeverDuringCreation ==
    [][\A p \in Procs : \A d \in Appended(p) : Base(d) \notin creating]_vars

\* C7, amended: a pass appends the directory of an instance that is
\* started but not yet listed only when the newest segment of that
\* directory was written more than minAge before the pass's now.
C7_CreationWithinMinAge ==
    [][\A p \in Procs : \A d \in Appended(p) :
          Base(d) \in creating => now[p] - wal[Base(d)].mtime > minAge]_vars

\* A finished pass has inspected the directory of an instance that is
\* started, not listed and not in the snapshot, and has left it out.
C7_Witness ==
    \E p \in Procs :
        /\ pc[p] = "log"
        /\ \E d \in Range(all[p]) \ (Managed(p) \cup Range(out[p])) :
              /\ Base(d) \in creating
              /\ wal[Base(d)].mtime <= now[p]

\* The minAge values C8 ranges over: those of construction, zero, and one
\* below every age there is.
AnyMinAge == MinAges \cup {0, 0 - MaxTime - 2}

\* C8: a storage directory whose WAL holds no segment gets an error from
\* lastWrittenTime and is in no result, whatever the root form, the
\* snapshot, now and minAge are; a running pass never appends it.
C8_NoSegmentsNeverAbandoned ==
    \A n \in Names :
        (kind[n] = "dir" /\ wal[n].st = "noseg") =>
            /\ lastWrittenTime(kind, wal, StorageDirectory(n)).err
            /\ \A p \in Procs : StorageDirectory(n) \notin Range(out[p])
            /\ \A root \in Roots, insts \in SUBSET Names,
                  nw \in {clock, MaxTime}, mAge \in AnyMinAge :
                  StorageDirectory(n) \notin
                      Range(abandonedStorageOn(root, kind, wal, insts, nw, mAge))

\* A finished pass has inspected an unowned directory without segments
\* whose age, had the zero time been taken for its time, exceeds minAge.
C8_Witness ==
    \E p \in Procs :
        /\ pc[p] = "log"
        /\ \E d \in Range(all[p]) \ Managed(p) :
              /\ wal[Base(d)].st = "noseg"
              /\ now[p] - empty > minAge

\* File system (k, w) without the entry named n.
Without(k, n) == [k EXCEPT ![n] = "absent"]

\* Inspecting the entry named n fails.
InspectionFails(n) ==
    kind[n] = "dir" /\ lastWrittenTime(kind, wal, PathOf(n)).err

\* C9: an unowned directory whose inspection fails is not in the result,
\* the result is the one the pass gives without that directory on disk,
\* a running pass goes on to its end and returns nil.
C9_FailedInspectionSkipped ==
    /\ \A n \in Names \ registry :
          InspectionFails(n) =>
              /\ PathOf(n) \notin Range(abandonedStorage(registry, clock))
              /\ abandonedStorage(registry, clock) =
                    abandonedStorageOn(walDirectory, Without(kind, n), wal,
                                       registry, clock, minAge)
    /\ \A p \in Procs :
          /\ \A d \in Range(out[p]) : ~InspectionFails(Base(d))
          /\ pc[p] = "log" => out[p] = abandonedStorage(instances[p], now[p])
          /\ ret[p] \in {"none", "nil"}

\* A finished pass met an unowned directory whose inspection fails and
\* then classified a later directory as abandoned.
C9_Witness ==
    \E p \in Procs :
        /\ pc[p] = "log"
        /\ \E i, j \in 1 .. Len(all[p]) :
              /\ i < j
              /\ all[p][i] \notin Managed(p)
              /\ InspectionFails(Base(all[p][i]))
              /\ all[p][j] \in Range(out[p])

\* C10: an entry under the root that cannot be read is not in the
\* scanner's result; the result, and the classification of a pass, are the
\* ones obtained without that entry.
C10_UnreadableEntryOmitted ==
    \A n \in Names :
        kind[n] = "unreadable" =>
            /\ PathOf(n) \notin Range(getAllStorage)
            /\ \A p \in Procs : PathOf(n) \notin Range(all[p])
            /\ getAllStorage = getAllStorageOn(walDirectory, Without(kind, n), wal)
            /\ abandonedStorage(registry, clock) =
                  abandonedStorageOn(walDirectory, Without(kind, n), wal,
                                     registry, clock, minAge)

\* A pass scanned a root whose first entry cannot be read, got the two
\* entries after it and classified one of them as abandoned.
C10_Witness ==
    \E p \in Procs :
        /\ pc[p] = "log"
        /\ kind[NameOrder[1]] = "unreadable"
        /\ Len(all[p]) = 2
        /\ out[p] # <<>>

\* C11: a pass over a WAL root that cannot be read returns a non-nil error.
C11_RootErrorPropagated ==
    \A p \in Procs :
        (kind[RootEntry] = "unreadable" /\ ret[p] # "none") => ret[p] # "nil"

\* C12: a pass returns nil only if every directory it classified as
\* abandoned has been deleted; a directory it left on disk makes it return
\* the deletion's error.
C12_DeletionErrorReturned ==
    \A p \in Procs :
        ret[p] = "nil" => \A d \in Range(out[p]) : kind[Base(d)] # "dir"

C14_StalledPassBlocksOnlyItself ==
    \A p \in Procs :
        (pc[p] \in {"scan", "inspect"} /\ ~panicked) =>
            /\ \A s \in Stoppers :
                  /\ stopPc[s] = "idle" => ENABLED StopTicker(s)
                  /\ (stopPc[s] = "close" /\ done = "open") =>
                        ENABLED (CloseDone(s) /\ stopPc'[s] = "returned")
            /\ \A q \in Procs \ {p} :
                  /\ pc[q] \in {"list", "scan", "inspect", "log"} =>
                        ENABLED CleanupStorage(q)
                  /\ pc[q] = "idle" => ENABLED Call(q)

\* The loop's pass stands in an inspection while a direct call is about
\* to scan and a call of Stop is about to close done.
C14_Witness ==
    /\ ~panicked
    /\ pc["loop"] = "inspect"
    /\ pc["manual"] = "scan"
    /\ done = "open"
    /\ \E s \in Stoppers : stopPc[s] = "close"

\* C15: with the loop's pass and a direct call running concurrently, each
\* pass ends with the result of a pass run alone on the same file system
\* and registry, and returns nil.
C15_ConcurrentPassesIndependent ==
    \A p \in Procs :
        /\ (pc[p] = "log" \/ ret[p] = "nil") =>
              out[p] = abandonedStorage(registry, clock)
        /\ ret[p] \in {"none", "nil"}

\* Both passes are in progress, each with its result complete and not
\* empty.
C15_Witness ==
    /\ pc["loop"] = "log"
    /\ pc["manual"] = "log"
    /\ out["loop"] # <<>>
    /\ out["manual"] # <<>>

\* C16: a step of the classification (the scan, a round of the range
\* loop) changes neither the registry, nor the file system, nor
\* walDirectory, minAge, ticker or done.
C16_ClassificationMutatesNothing ==
    [][\A p \in Procs :
          (pc[p] \in {"scan", "inspect"}
              /\ (pc'[p] # pc[p] \/ idx'[p] # idx[p]))
          => UNCHANGED <<registry, creating, kind, wal, walDirectory, minAge,
                         tickerStopped, tickerC, done>>]_vars

\* A pass has classified a directory as abandoned; the directory is still
\* on disk.
C16_Witness ==
    \E p \in Procs :
        /\ pc[p] = "log"
        /\ out[p] # <<>>
        /\ \A d \in Range(out[p]) : kind[Base(d)] = "dir"

\* C17: no WAL handle is open between the steps of the passes: each one
\* lastWrittenTime has opened is closed when it returns.
C17_HandlesClosed == handles = 0

\* A pass has called lastWrittenTime for a WAL it opened and left on an
\* error, and for one whose time it returned.
C17_Witness ==
    \E p \in Procs :
        /\ pc[p] = "log"
        /\ \E d \in Range(all[p]) \ Managed(p) :
              WalOf(kind, wal, Base(d)).st \in {"segerr", "noseg", "staterr"}
        /\ \E d \in Range(all[p]) \ Managed(p) :
              WalOf(kind, wal, Base(d)).st = "ok"

\* C18: when a pass of the loop returns, whatever failed in it, the loop
\* selects again; it leaves run only when done is closed; and whenever it
\* selects with a tick in ticker.C, it can start a pass.
C18_FailingPassDoesNotStopLoop ==
    [][/\ (pc["loop"] = "log" /\ pc'["loop"] # "log") => pc'["loop"] = "select"
       /\ (pc["loop"] # "exited" /\ pc'["loop"] = "exited") => done = "closed"
       /\ (pc["loop"] = "select" /\ tickerC /\ ~panicked) => ENABLED RecvTick]_vars

\* The loop has finished a pass over a root that cannot be read, Stop has
\* not been called, and the next tick is in ticker.C.
C18_Witness ==
    /\ kind[RootEntry] = "unreadable"
    /\ pc["loop"] = "select"
    /\ ret["loop"] = "nil"
    /\ \A s \in Stoppers : stopPc[s] = "idle"
    /\ tickerC
    /\ ENABLED RecvTick

\* C19: a pass of the loop starts only when the loop is in its select,
\* that is with no pass of the loop in progress, and takes one tick; a
\* tick that arrives during a pass moves no task.
C19_LoopPassesOneAtATime ==
    [][/\ (pc'["loop"] = "list" /\ pc["loop"] # "list") =>
             (pc["loop"] = "select" /\ tickerC /\ ~tickerC')
       /\ (tickerC' /\ ~tickerC) => pc' = pc]_vars

\* The next tick is in ticker.C while a pass of the loop is in progress.
C19_Witness ==
    /\ pc["loop"] \in {"list", "scan", "inspect", "log"}
    /\ tickerC

\* C20: on a readable root, the list a pass has got from the scanner is
\* exactly the set of the directories immediately under the root.
C20_ExactlyImmediateSubdirectories ==
    \A p \in Procs :
        (kind[RootEntry] = "dir" /\ pc[p] \in {"inspect", "log"}) =>
            Range(all[p]) = {PathOf(n) : n \in {m \in Names : kind[m] = "dir"}}

\* C21: ticker.C never holds more than one tick: when the loop takes a
\* tick and starts a pass, no tick is left in ticker.C, however many ticks
\* were dropped while the previous pass ran; a second pass needs the ticker
\* to fire again.
C21_TicksCoalesced ==
    [][(pc["loop"] = "select" /\ pc'["loop"] = "list") =>
           (~tickerC' /\ dropped' = 0)]_vars

\* The loop is back in its select after a pass during which a tick
\* arrived in ticker.C and MaxDropped further ones were dropped.
C21_Witness ==
    /\ pc["loop"] = "select"
    /\ ret["loop"] = "nil"
    /\ tickerC
    /\ dropped = MaxDropped

\* C22: once a call of Stop has returned (and no other call of Stop has
\* panicked), a task can call CleanupStorage directly, every step of the
\* pass it is running can be taken, the pass ends with the result of
\* abandonedStorage and returns nil.
C22_PassAfterStop ==
    ((\E s \in Stoppers : stopPc[s] = "returned") /\ ~panicked) =>
        /\ pc["manual"] = "idle" => ENABLED Call("manual")
        /\ pc["manual"] \in {"list", "scan", "inspect", "log"} =>
              ENABLED CleanupStorage("manual")
        /\ pc["manual"] = "log" =>
              /\ out["manual"] = abandonedStorage(registry, clock)
              /\ ENABLED (Return("manual") /\ ret'["manual"] = "nil")
        /\ ret["manual"] \in {"none", "nil"}

\* Stop has returned, the loop has left run, and a direct call is in its
\* pass, about to return a result that is not empty.
C22_Witness ==
    /\ ~panicked
    /\ \E s \in Stoppers : stopPc[s] = "returned"
    /\ pc["loop"] = "exited"
    /\ pc["manual"] = "log"
    /\ out["manual"] # <<>>

\* The deps a call of Stop has called so far, in the order of the calls.
Called(s) == [i \in 1 .. Len(shut[s]) |-> shut[s][i].dep]

\* The first error among the ones the deps returned, nil if there is none.
FirstError(s) ==
    IF \A i \in 1 .. Len(shut[s]) : shut[s][i].err = "nil" THEN "nil"
    ELSE LET f == CHOOSE i \in 1 .. Len(shut[s]) :
                      /\ shut[s][i].err # "nil"
                      /\ \A j \in 1 .. i - 1 : shut[s][j].err = "nil"
         IN  shut[s][f].err

\* C23: Server.Stop calls the receivers' shutdown, then the pipelines',
\* then the exporters', each once and in that order, whatever the earlier
\* ones returned; once it has returned, all three have been called and its
\* result is the first error one of them returned, nil if none did.
C23_StopShutsDownAll ==
    \A s \in Servers :
        /\ Called(s) = SubSeq(deps, 1, Len(shut[s]))
        /\ srvPc[s] = "stopped" =>
              /\ Called(s) = deps
              /\ srvRet[s] = FirstError(s)

\* A call of Stop has returned the receivers' error after the pipelines'
\* shutdown succeeded and the exporters' failed as well.
C23_Witness ==
    \E s \in Servers :
        /\ srvPc[s] = "stopped"
        /\ Len(shut[s]) = 3
        /\ shut[s][1].err # "nil"
        /\ shut[s][2].err = "nil"
        /\ shut[s][3].err # "nil"
        /\ srvRet[s] = shut[s][1].err

\* C24: NewServer is called only with a port above 49152 and below 65535,
\* at most five times; the call returns the first server that started,
\* with its address, or after five failures no server and an error that
\* wraps the fifth failure.
C24_RandomPortInRange ==
    /\ nsPc = "call" => (port > MinPort /\ port < MaxPort /\ tries < Attempts)
    /\ tries <= Attempts
    /\ nsPc = "returned" =>
          \/ /\ srv = "server"
             /\ listenAddr = Addr(port)
             /\ srvErr = "nil"
          \/ /\ srv = "nil"
             /\ listenAddr = ""
             /\ tries = Attempts
             /\ srvErr[2] = <<"NewServer", Attempts>>

====
